---- MODULE Spec2Model ----
(***************************************************************************)
(* The stdin/stdout protocol loop of the physics bridge                    *)
(* (src/server/python/physics_nemo_bridge.py, main and the __main__        *)
(* block), with the four simulate_* routines reduced to what the loop      *)
(* observes of them: whether they return a result or raise.                *)
(*                                                                         *)
(* JSON objects (Python dicts) are functions from key strings to values;   *)
(* an absent key is a key outside DOMAIN and dict.get(k, default) is Get.  *)
(* Numbers are integers in the unit named at each default.                 *)
(***************************************************************************)
EXTENDS Integers, Sequences, FiniteSets, TLC

VARIABLES
    pc,               \* position of the process in main / __main__
    simulator,        \* main's local `simulator`: the models it holds
    MODULUS_AVAILABLE,\* result of the guarded import at module load
    stdin,            \* the lines readline has returned so far, in order
    line,             \* main's local `line`
    request,          \* main's local `request` (unbound until first decode)
    exc,              \* the exception being handled, "none" if none
    stdout,           \* [buf: printed, not yet flushed; flushed: visible]
    faults,           \* number of stream failures that have occurred
    exitStatus,       \* process exit status, -1 while running
    handling,         \* history: index in stdin of the line the current
                      \* iteration read, 0 when it has read none
    cause,            \* history: for each printed record, the value of
                      \* `handling` when it was printed
    called            \* history: the routines main has awaited while
                      \* handling the current line, in order

vars == <<pc, simulator, MODULUS_AVAILABLE, stdin, line, request, exc,
          stdout, faults, exitStatus, handling, cause, called>>

----------------------------------------------------------------------------
(* Bounds of the model. *)

MaxLines == 2         \* lines the stream delivers before end of stream
MaxFaults == 1        \* stream failures (read or write) in one run

----------------------------------------------------------------------------
(* Dicts. *)

EmptyDict == [k \in {} |-> 0]

Get(d, k, default) == IF k \in DOMAIN d THEN d[k] ELSE default

----------------------------------------------------------------------------
(* Numbers.  A float is modelled as a decimal float of Digits significant   *)
(* digits, m * 10^e with 1000 <= |m| <= 9999 (or m = 0); the result of      *)
(* every operation is truncated to Digits digits.  s tells a finite number  *)
(* ("fin") from numpy's inf, -inf ("inf", sign in m) and nan.  inf and nan  *)
(* arise only where the code divides by a numpy zero; dividing Python       *)
(* floats by zero raises instead and is guarded at the call.                *)

Digits == 4

\* The element of a singleton.  { e : x \in {a} } evaluates a once and
\* binds x to its value, as Python evaluates an argument before a call or
\* the right-hand side of an assignment before binding the name.
The(S) == CHOOSE r \in S : TRUE

Abs(i) == IF i < 0 THEN -i ELSE i

Sign(i) == IF i < 0 THEN -1 ELSE IF i = 0 THEN 0 ELSE 1

\* Number of decimal digits of a, for 0 < a < 2^31.
NumDigits(a) ==
    IF a < 10 THEN 1 ELSE IF a < 100 THEN 2 ELSE IF a < 1000 THEN 3
    ELSE IF a < 10000 THEN 4 ELSE IF a < 100000 THEN 5
    ELSE IF a < 1000000 THEN 6 ELSE IF a < 10000000 THEN 7
    ELSE IF a < 100000000 THEN 8 ELSE IF a < 1000000000 THEN 9 ELSE 10

\* The float m * 10^e, its mantissa truncated or padded to Digits digits.
F(m, e) ==
    IF m = 0 THEN [s |-> "fin", m |-> 0, e |-> 0]
    ELSE LET k == NumDigits(Abs(m)) - Digits
         IN [s |-> "fin",
             m |-> IF k >= 0 THEN Sign(m) * (Abs(m) \div 10^k) ELSE m * 10^(-k),
             e |-> e + k]

\* An integer as a float.
Num(i) == F(i, 0)

Inf == [s |-> "inf", m |-> 1, e |-> 0]
NegInf == [s |-> "inf", m |-> -1, e |-> 0]
NaN == [s |-> "nan", m |-> 0, e |-> 0]

IsFinite(a) == a.s = "fin"
IsNaN(a) == a.s = "nan"
IsZero(a) == a.s = "fin" /\ a.m = 0

Neg(a) == The({ [x EXCEPT !.m = -x.m] : x \in {a} })

\* a * b; inf * 0 is nan.
Mul(a, b) ==
    The({ IF IsNaN(x) \/ IsNaN(y) THEN NaN
          ELSE IF x.s = "inf" \/ y.s = "inf"
               THEN IF x.m = 0 \/ y.m = 0 THEN NaN
                    ELSE [s |-> "inf", m |-> Sign(x.m) * Sign(y.m), e |-> 0]
          ELSE F(x.m * y.m, x.e + y.e)
          : x \in {a}, y \in {b} })

\* a / b with numpy's result for a zero divisor (the zero is positive).
\* Callers dividing Python floats test IsZero(b) first.
Div(a, b) ==
    The({ IF IsNaN(x) \/ IsNaN(y) THEN NaN
          ELSE IF y.s = "inf" THEN (IF x.s = "inf" THEN NaN ELSE Num(0))
          ELSE IF x.s = "inf"
               THEN [s |-> "inf", m |-> x.m * (IF y.m < 0 THEN -1 ELSE 1), e |-> 0]
          ELSE IF y.m = 0
               THEN IF x.m = 0 THEN NaN ELSE [s |-> "inf", m |-> Sign(x.m), e |-> 0]
          ELSE IF x.m = 0 THEN Num(0)
          ELSE F(Sign(x.m) * Sign(y.m) * ((Abs(x.m) * 10^5) \div Abs(y.m)),
                 x.e - 5 - y.e)
          : x \in {a}, y \in {b} })

Add(a, b) ==
    The({ IF IsNaN(x) \/ IsNaN(y) THEN NaN
          ELSE IF x.s = "inf" /\ y.s = "inf" THEN (IF x.m = y.m THEN x ELSE NaN)
          ELSE IF x.s = "inf" THEN x
          ELSE IF y.s = "inf" THEN y
          ELSE IF x.m = 0 THEN y
          ELSE IF y.m = 0 THEN x
          ELSE LET hi == IF x.e >= y.e THEN x ELSE y
                   lo == IF x.e >= y.e THEN y ELSE x
               IN IF hi.e - lo.e > Digits THEN hi
                  ELSE F(hi.m * 10^(hi.e - lo.e) + lo.m, lo.e)
          : x \in {a}, y \in {b} })

Sub(a, b) == Add(a, Neg(b))

\* a < b; every comparison with nan is false.
Less(a, b) ==
    The({ IF IsNaN(x) \/ IsNaN(y) THEN FALSE
          ELSE IF x.s = "inf" /\ y.s = "inf" THEN x.m < y.m
          ELSE IF x.s = "inf" THEN x.m < 0
          ELSE IF y.s = "inf" THEN y.m > 0
          ELSE Sub(x, y).m < 0
          : x \in {a}, y \in {b} })

\* Python's min(a, b): b if b < a, else a.
Min(a, b) == The({ IF Less(y, x) THEN y ELSE x : x \in {a}, y \in {b} })

\* np.pi, a Python float.
Pi == F(3142, -3)

\* One step of the search for an integer root: r with bit b added, if its
\* k-th power still is at most n (r + b <= max keeps the power below 2^31).
RootStep(r, b, k, max, n) ==
    IF r + b <= max /\ (r + b)^k <= n THEN r + b ELSE r

\* The search from bit b down: the largest r' >= r, r' - r < 2 * b, whose
\* k-th power is at most n.
RECURSIVE IRootFrom(_, _, _, _, _)
IRootFrom(r, b, k, max, n) ==
    IF b = 0 THEN r
    ELSE The({ IRootFrom(x, b \div 2, k, max, v) :
                 x \in {RootStep(r, b, k, max, n)}, v \in {n} })

\* Largest r with r^5 <= n, for 0 <= n < 2^31 (73^5 < 2^31 <= 74^5).
IRoot5(n) == IRootFrom(0, 64, 5, 73, n)

\* Largest r with r^4 <= n, for 0 <= n < 2^31 (215^4 < 2^31 <= 216^4).
IRoot4(n) == IRootFrom(0, 128, 4, 215, n)

\* a ** (1/k) for finite a > 0, k = 5 or 4: the mantissa is shifted so that
\* the exponent left over is a multiple of k, and the integer root taken.
Root5(a) ==
    The({ LET j == IF x.e % 5 = 0 THEN 5 ELSE x.e % 5
          IN F(IRoot5(x.m * 10^j), (x.e - j) \div 5) : x \in {a} })

Root4(a) ==
    The({ LET j == IF x.e % 4 = 0 THEN 4 ELSE x.e % 4
          IN F(IRoot4(x.m * 10^j), (x.e - j) \div 4) : x \in {a} })

\* a ** 0.8, a ** 0.4 and a ** 0.25 for a >= 0, as powers of the root.
\* A negative Python float gives a complex number; callers test for it.
Pow08(a) ==
    The({ IF ~IsFinite(x) \/ IsZero(x) THEN x
          ELSE The({ Mul(Mul(r, r), Mul(r, r)) : r \in {Root5(x)} })
          : x \in {a} })

Pow04(a) ==
    The({ IF ~IsFinite(x) \/ IsZero(x) THEN x
          ELSE The({ Mul(r, r) : r \in {Root5(x)} })
          : x \in {a} })

Pow025(a) == The({ IF ~IsFinite(x) \/ IsZero(x) THEN x ELSE Root4(x) : x \in {a} })

\* np.exp(a) for finite a: exact at 0, 1 + a + a^2/2 for a > 0 and the
\* reciprocal of that for a < 0.  The result is a numpy float.
Exp(a) ==
    The({ The({ IF v.m < 0 THEN Div(Num(1), y) ELSE y :
                  y \in {Add(Add(Num(1), x), Div(Mul(x, x), Num(2)))} })
          : v \in {a}, x \in {IF a.m < 0 THEN Neg(a) ELSE a} })

----------------------------------------------------------------------------
(* The input alphabet: what one readline() can return. *)

SupportedTypes ==
    {"thermal_coil", "fluid_dynamics", "multi_phase", "external_flow_golf_ball"}

\* simulationType values sent by callers: the supported ones and the data
\* model's "external_flow", which main does not route.
TypeNames == SupportedTypes \cup {"external_flow"}

\* parameters mappings that make fluid_dynamics divide by zero.
ParamSets ==
    { [materialProperties |-> [viscosity |-> Num(0)]],
      [flowRate |-> Num(0)] }

Type(t) == ("simulationType" :> t)

\* A request of type t for a trajectory of two samples.
Short(t) == Type(t) @@ ("parameters" :> [timeHorizon |-> 120])

\* What a request says about the simulation: no type at all, a type with a
\* short time horizon (the routines otherwise run on their defaults), or
\* fluid_dynamics with parameters that make it divide by zero.
SimPart ==
    {EmptyDict}
    \cup { Short(t) : t \in TypeNames }
    \cup { Type("fluid_dynamics") @@ ("parameters" :> p) : p \in ParamSets }

Header(r, t) == ("requestId" :> r) @@ ("tankId" :> t)

\* main reads the header keys and the simulation keys independently of
\* each other: r1 is sent with every simulation part, r2 with one that
\* succeeds, one that is not routed and one that raises, and the objects
\* that leave requestId or tankId out with thermal_coil and with no type.
Objects ==
    { Header("r1", 3) @@ s : s \in SimPart }
    \cup { Header("r2", 3) @@ s :
               s \in { Short("thermal_coil"), Short("external_flow"),
                       Type("fluid_dynamics")
                         @@ ("parameters" :> [materialProperties |-> [viscosity |-> Num(0)]]) } }
    \cup { ("requestId" :> "r1") @@ Short("thermal_coil"),
           ("tankId" :> 3) @@ Short("thermal_coil"),
           EmptyDict }

\* A line is whitespace only, text that is no JSON, a JSON value that is not
\* an object, or a JSON object.
Lines ==
    { [kind |-> "blank"], [kind |-> "garbage"], [kind |-> "scalar"] }
    \cup { [kind |-> "object", obj |-> o] : o \in Objects }

EOF == [kind |-> "eof"]
NoLine == [kind |-> "none"]

----------------------------------------------------------------------------
(* The requests alphabet: single requests that exercise the physics        *)
(* routines.  Floats are written F(m, e) = m * 10^e.                        *)

MaxRequests == 1      \* requests the stream delivers in one run

\* The types whose routine builds a trajectory.
TrajectoryTypes == {"thermal_coil", "fluid_dynamics", "multi_phase"}

Req(t, p) == Header("r1", 3) @@ Type(t) @@ ("parameters" :> p)

\* Steps a trajectory of type t is capped at.
Cap(t) == IF t = "multi_phase" THEN 30 ELSE 60

\* timeHorizon values: negative, zero, around one step, around the cap of
\* the type, and far above it.
Horizons(t) ==
    {-100000, -1, 0, 59, 60, 100000} \cup {Cap(t) * 60 - 1, Cap(t) * 60}

HorizonRequests ==
    UNION { { Req(t, [timeHorizon |-> h]) : h \in Horizons(t) } : t \in TrajectoryTypes }

\* No parameters key at all.
DefaultRequests == { Header("r1", 3) @@ Type(t) : t \in TypeNames }

\* parameters with some of the sub-mappings absent or empty.
PartialRequests ==
    { Req(t, p) :
        t \in TrajectoryTypes,
        p \in { [temperature |-> Num(100), timeHorizon |-> 120],
                [geometry |-> [pipeLength |-> Num(20)], timeHorizon |-> 120],
                [materialProperties |-> [density |-> Num(900)], timeHorizon |-> 120],
                [boundaryConditions |-> [coilInletTemp |-> Num(200)],
                 geometry |-> EmptyDict, timeHorizon |-> 120] } }

\* Reynolds numbers just below, at and just above the laminar limit: with
\* pipeRadius 1 and flowRate pi the velocity is 1 and Re = 2 * density /
\* viscosity; at temperature 100 the asphalt viscosity is a * exp(-1), which
\* is 0.6 in this arithmetic.
RegimeRequests ==
    { Req("fluid_dynamics",
          [flowRate |-> F(3142, -3), geometry |-> [pipeRadius |-> Num(1)],
           materialProperties |-> [viscosity |-> Num(1), density |-> Num(d)],
           timeHorizon |-> 120]) : d \in {1149, 1150, 1151} }
    \cup
    { Req("multi_phase",
          [temperature |-> Num(100), flowRate |-> F(3142, -3),
           geometry |-> [pipeRadius |-> Num(1)],
           materialProperties |-> [density |-> Num(d)],
           timeHorizon |-> 120]) : d \in {629, 630, 631} }

\* Thermal-coil requests around the efficiency clamp: inlet colder than the
\* tank, as warm as the tank, no flow, a coil large enough to transfer more
\* than the flow can carry, and a negative pitch.
EfficiencyRequests ==
    { Req("thermal_coil", p @@ [timeHorizon |-> 120]) :
        p \in { [boundaryConditions |-> [coilInletTemp |-> Num(100)]],
                [temperature |-> Num(180)],
                [flowRate |-> Num(0)],
                [geometry |-> [turns |-> Num(30000)]],
                [geometry |-> [pitch |-> F(-1, -1)]] } }

\* Flow requests with one of the non-negative inputs at zero.
ZeroRequests ==
    { Req(t, p @@ [timeHorizon |-> 120]) :
        t \in {"fluid_dynamics", "multi_phase"},
        p \in { [flowRate |-> Num(0)],
                [geometry |-> [pipeRadius |-> Num(0)]],
                [geometry |-> [pipeLength |-> Num(0)]],
                [materialProperties |-> [density |-> Num(0)]],
                [materialProperties |-> [viscosity |-> Num(0)]],
                [materialProperties |->
                    [viscosityTemperatureRelation |->
                        [a |-> Num(0), b |-> F(-2, -2), c |-> F(1, -4)]]] } }

\* External-flow requests with parameters.
ExternalRequests ==
    { Req(t, p) :
        t \in {"external_flow", "external_flow_golf_ball"},
        p \in { [timeHorizon |-> 3600],
                [ball_radius |-> F(2, -2), fluid_density |-> Num(1000)] } }

Requests ==
    HorizonRequests \cup DefaultRequests \cup PartialRequests \cup RegimeRequests
    \cup EfficiencyRequests \cup ZeroRequests \cup ExternalRequests

RequestLines ==
    { [kind |-> "blank"], [kind |-> "scalar"] }
    \cup { [kind |-> "object", obj |-> o] : o \in Requests }

----------------------------------------------------------------------------
(* Module globals. *)

\* Mutant: the module imports traceback as well.
ImportedModules_withTraceback ==
    {"sys", "json", "time", "logging", "np", "asyncio", "warnings", "traceback"}

\* The names the import statements at the top of the file bind.
ImportedModules ==
    {"sys", "json", "time", "logging", "np", "asyncio", "warnings"}

----------------------------------------------------------------------------
(* The output stream: print() appends to the buffer, flush() makes the      *)
(* buffered records visible to the reader of the pipe.                      *)

Marker == [marker |-> "INIT_COMPLETE"]

print(out, rec) == [out EXCEPT !.buf = Append(@, rec)]

\* Mutant: flush() that leaves the buffer where it is.
Flush_noop(out) == out

Flush(out) == [buf |-> <<>>, flushed |-> out.flushed \o out.buf]

\* print(...) followed by sys.stdout.flush().  When either raises, the
\* actions below leave the stream as it was.
Write(out, rec) == Flush(print(out, rec))

----------------------------------------------------------------------------
(* json.loads(line.strip()) *)

Strip(l) == IF l.kind = "blank" THEN [kind |-> "empty"] ELSE l

\* json.loads: raises JSONDecodeError on the empty string and on text that
\* is no JSON document, otherwise returns the decoded value.
JsonLoads(text) ==
    CASE text.kind \in {"empty", "garbage"} ->
             [raised |-> TRUE]
      [] text.kind = "scalar" ->
             [raised |-> FALSE, value |-> [bound |-> TRUE, isDict |-> FALSE, d |-> EmptyDict]]
      [] text.kind = "object" ->
             [raised |-> FALSE, value |-> [bound |-> TRUE, isDict |-> TRUE, d |-> text.obj]]

Unbound == [bound |-> FALSE, isDict |-> FALSE, d |-> EmptyDict]

----------------------------------------------------------------------------
(* Results of calls: a value returned or an exception raised. *)

Return(v) == [raised |-> "none", value |-> v]

Raise(e) == [raised |-> e]

----------------------------------------------------------------------------
(* The inference backend.  A model is what TankPhysicsSimulator() built:    *)
(* its class and the weights nn.Linear drew at construction.  In eval mode  *)
(* forward() is a function of the weights and the input vector; its output  *)
(* element k is kept as the term [model, inputs, k].                        *)

Model(name, output_dim, weights) ==
    [name |-> name, output_dim |-> output_dim, weights |-> weights]

Forward(model, inputs) ==
    [k \in 1..model.output_dim |-> [model |-> model, inputs |-> inputs, k |-> k]]

\* results[lo:hi] of Python, for 0 <= lo <= hi <= len(results)
Slice(results, lo, hi) == SubSeq(results, lo + 1, hi)

\* Weights a construction can draw.
Weights == {1, 2}

\* TankPhysicsSimulator.__init__
TankPhysicsSimulator(w) ==
    [heat_transfer_model |-> Model("HeatTransferModel", 12, w),
     fluid_dynamics_model |-> Model("FluidDynamicsModel", 8, w),
     multi_phase_model |-> Model("MultiPhaseFlowModel", 10, w),
     external_flow_model |-> Model("ExternalFlowModel", 4, w)]

NoSimulator == [heat_transfer_model |-> "unbound"]

----------------------------------------------------------------------------
(* Defaults of the physics routines. *)

DefaultViscosity == F(1, -2)              \* 0.01
DefaultFlowRate == Num(1)                 \* 1.0
DefaultPipeRadius == F(5, -2)             \* 0.05
DefaultAsphaltPipeRadius == F(1, -1)      \* 0.1
DefaultDensity == Num(850)                \* 850.0
DefaultThermalConductivity == F(14, -2)   \* 0.14
DefaultSpecificHeat == Num(2100)          \* 2100.0
DefaultCoilRadius == F(5, -1)             \* 0.5
DefaultTurns == Num(3)
DefaultPitch == F(1, -1)                  \* 0.1
DefaultTemperature == Num(120)            \* 120.0
DefaultCoilInletTemp == Num(180)          \* 180.0
DefaultPressure == Num(2)                 \* 2.0
DefaultPipeLength == Num(10)              \* 10.0
DefaultAsphaltTemperature == Num(150)     \* 150.0
DefaultAsphaltPressure == F(15, -1)       \* 1.5
DefaultAsphaltFlowRate == F(5, -1)        \* 0.5
DefaultAsphaltDensity == Num(1000)        \* 1000.0
DefaultAsphaltPipeLength == Num(50)       \* 50.0
DefaultRoughness == F(1, -3)              \* 0.001
DefaultAsphaltSpecificHeat == Num(2000)   \* 2000.0
DefaultAsphaltThermalConductivity == F(8, -1)   \* 0.8
DefaultViscosityTemperatureRelation ==
    [a |-> F(15, -1), b |-> F(-2, -2), c |-> F(1, -4)]
DefaultTimeHorizon == 3600
DefaultAsphaltTimeHorizon == 1800
TimeStepsCap == 60          \* min(60, ...)
AsphaltTimeStepsCap == 30   \* min(30, ...)

----------------------------------------------------------------------------
(* Thermal coil. *)

\* HeatTransferModel.compute_heat_transfer.  The divisions are divisions of
\* Python floats: a zero divisor raises.  A negative Reynolds or Prandtl
\* number makes ** return a complex number, on which min() or float()
\* then raises TypeError.
compute_heat_transfer(model, tank_temp, coil_inlet_temp, flow_rate, coil_geometry, oil_properties) ==
    LET coilRadius == Get(coil_geometry, "coilRadius", DefaultCoilRadius)
        turns == Get(coil_geometry, "turns", DefaultTurns)
        pitch == Get(coil_geometry, "pitch", DefaultPitch)
        pipeRadius == Get(coil_geometry, "pipeRadius", DefaultPipeRadius)
        viscosity == Get(oil_properties, "viscosity", DefaultViscosity)
        density == Get(oil_properties, "density", DefaultDensity)
        specificHeat == Get(oil_properties, "specificHeat", DefaultSpecificHeat)
        thermalConductivity ==
            Get(oil_properties, "thermalConductivity", DefaultThermalConductivity)
        inputs == << tank_temp, coil_inlet_temp, flow_rate, coilRadius, turns,
                     viscosity, density, specificHeat >>
        results == Forward(model, inputs)
        delta_t == Sub(coil_inlet_temp, tank_temp)
        reynolds_number ==
            Div(Mul(Mul(Mul(density, flow_rate), pipeRadius), Num(2)), viscosity)
        prandtl_number == Div(Mul(viscosity, specificHeat), thermalConductivity)
        nusselt_number ==
            Mul(Mul(F(23, -3), Pow08(reynolds_number)), Pow04(prandtl_number))
        heat_transfer_coeff ==
            Div(Mul(nusselt_number, thermalConductivity), Mul(pipeRadius, Num(2)))
        surface_area == Mul(Mul(Mul(Mul(Num(2), Pi), coilRadius), turns), pitch)
        heat_transfer_rate == Mul(Mul(heat_transfer_coeff, surface_area), delta_t)
        max_possible_heat_transfer ==
            Mul(Mul(Mul(flow_rate, density), specificHeat), delta_t)
        efficiency ==
            IF Less(Num(0), max_possible_heat_transfer)
            THEN Min(Div(heat_transfer_rate, max_possible_heat_transfer), Num(1))
            ELSE Num(0)
    IN IF IsZero(viscosity) THEN Raise("ZeroDivisionError")
       ELSE IF IsZero(thermalConductivity) THEN Raise("ZeroDivisionError")
       ELSE IF IsZero(Mul(pipeRadius, Num(2))) THEN Raise("ZeroDivisionError")
       ELSE IF reynolds_number.m < 0 \/ prandtl_number.m < 0 THEN Raise("TypeError")
       ELSE Return([temperatureField |-> Slice(results, 0, 4),
                    pressureField |-> Slice(results, 4, 8),
                    flowVelocity |-> Slice(results, 8, 10),
                    heatFlux |-> Slice(results, 10, 12),
                    efficiency |-> efficiency,
                    heatTransferRate |-> heat_transfer_rate,
                    reynoldsNumber |-> reynolds_number,
                    nusseltNumber |-> nusselt_number,
                    surfaceArea |-> surface_area])

\* Mutant: the number of steps is rounded up.
TimeSteps_ceil(cap, time_horizon) ==
    IF (time_horizon + 59) \div 60 < cap THEN (time_horizon + 59) \div 60 ELSE cap

\* Mutant: the number of steps is not capped.
TimeSteps_nocap(cap, time_horizon) == time_horizon \div 60

\* min(cap, time_horizon // 60) on integers
TimeSteps(cap, time_horizon) ==
    IF time_horizon \div 60 < cap THEN time_horizon \div 60 ELSE cap

\* The values i of range(time_steps), as positions 1..n of the list built:
\* position k holds the sample for i = k - 1; range of a negative number
\* is empty.
Range(time_steps) == 1..(IF time_steps < 0 THEN 0 ELSE time_steps)

\* Mutant: the fraction of the step's end, (i + 1) / time_steps.
TimeFactor_inclusive(i, time_steps) == Div(Num(i + 1), Num(time_steps))

\* time_factor = i / time_steps
TimeFactor(i, time_steps) == Div(Num(i), Num(time_steps))

\* TankPhysicsSimulator.simulate_thermal_coil.  computationTime, a reading
\* of the wall clock, is not modelled in the dict returned.
simulate_thermal_coil(self, parameters) ==
    LET tank_temp == Get(parameters, "temperature", DefaultTemperature)
        coil_inlet_temp ==
            Get(Get(parameters, "boundaryConditions", EmptyDict),
                "coilInletTemp", DefaultCoilInletTemp)
        flow_rate == Get(parameters, "flowRate", DefaultFlowRate)
        coil_geometry == Get(parameters, "geometry", EmptyDict)
        oil_properties == Get(parameters, "materialProperties", EmptyDict)
        returned == compute_heat_transfer(self.heat_transfer_model, tank_temp,
                                      coil_inlet_temp, flow_rate,
                                      coil_geometry, oil_properties)
    IN The({
    LET call == c
        heat_transfer_result == call.value
        time_horizon == Get(parameters, "timeHorizon", DefaultTimeHorizon)
        time_steps == TimeSteps(TimeStepsCap, time_horizon)
        predicted_states ==
            [k \in Range(time_steps) |->
                LET time_factor == TimeFactor(k - 1, time_steps)
                    temp_evolution ==
                        Add(tank_temp,
                            Mul(Mul(Sub(coil_inlet_temp, tank_temp),
                                    heat_transfer_result.efficiency), time_factor))
                IN << temp_evolution,
                      Mul(heat_transfer_result.heatTransferRate,
                          Sub(Num(1), Mul(time_factor, F(1, -1)))) >>]
        energy_consumption ==
            Div(Mul(heat_transfer_result.heatTransferRate, Num(time_horizon)),
                Num(3600000))
        optimal_setpoints ==
            [temperature |-> Add(tank_temp, Num(10)),
             flowRate |-> Mul(flow_rate, F(11, -1)),
             pressure |-> Mul(Get(parameters, "pressure", DefaultPressure), F(105, -2))]
    IN IF call.raised # "none" THEN call
       ELSE Return([predictedStates |-> predicted_states,
                    temperatureField |-> << heat_transfer_result.temperatureField >>,
                    pressureField |-> << heat_transfer_result.pressureField >>,
                    flowVelocity |-> << heat_transfer_result.flowVelocity >>,
                    heatFlux |-> heat_transfer_result.heatFlux,
                    efficiency |-> heat_transfer_result.efficiency,
                    confidence |-> F(92, -2),
                    energyConsumption |-> energy_consumption,
                    optimalSetpoints |-> optimal_setpoints,
                    additionalMetrics |->
                        [reynoldsNumber |-> heat_transfer_result.reynoldsNumber,
                         nusseltNumber |-> heat_transfer_result.nusseltNumber,
                         surfaceArea |-> heat_transfer_result.surfaceArea]])
    : c \in {returned} })

----------------------------------------------------------------------------
(* Fluid dynamics. *)

\* Mutant: the laminar formula is used up to and including the limit.
friction_factor_le(reynolds_number, laminar_limit) ==
    IF ~Less(laminar_limit, reynolds_number) /\ ~IsNaN(reynolds_number)
    THEN Div(Num(64), reynolds_number)
    ELSE Div(F(316, -3), Pow025(reynolds_number))

\* if reynolds_number < limit: 64 / reynolds_number
\* else: 0.316 / (reynolds_number ** 0.25)
friction_factor(reynolds_number, laminar_limit) ==
    IF Less(reynolds_number, laminar_limit)
    THEN Div(Num(64), reynolds_number)
    ELSE Div(F(316, -3), Pow025(reynolds_number))

LaminarLimit == Num(2300)
AsphaltLaminarLimit == Num(2100)

\* np.sin(x) for 0 <= x < 2*pi, by the rational approximation
\* 16 x (pi - x) / (5 pi^2 - 4 x (pi - x)) on [0, pi] and its mirror image
\* on [pi, 2 pi); it is 0 at 0 and pi and never exceeds 1 in size.
Sin(x) ==
    LET y == IF Less(x, Pi) THEN x ELSE Sub(x, Pi)
        p == Mul(y, Sub(Pi, y))
        v == Div(Mul(Num(16), p), Sub(Mul(Num(5), Mul(Pi, Pi)), Mul(Num(4), p)))
    IN IF Less(x, Pi) THEN v ELSE Neg(v)

\* FluidDynamicsModel.compute_fluid_dynamics: all divisions are divisions
\* of Python floats.
compute_fluid_dynamics(model, temperature, pressure, flow_rate, geometry, fluid_properties) ==
    LET viscosity == Get(fluid_properties, "viscosity", DefaultViscosity)
        density == Get(fluid_properties, "density", DefaultDensity)
        pipeRadius == Get(geometry, "pipeRadius", DefaultPipeRadius)
        inputs == << temperature, pressure, flow_rate, viscosity, density, pipeRadius >>
        results == Forward(model, inputs)
        pipe_area == Mul(Pi, Mul(pipeRadius, pipeRadius))
        velocity == Div(flow_rate, pipe_area)
        reynolds_number ==
            Div(Mul(Mul(Mul(density, velocity), pipeRadius), Num(2)), viscosity)
        f == friction_factor(reynolds_number, LaminarLimit)
        pipe_length == Get(geometry, "pipeLength", DefaultPipeLength)
        pressure_drop ==
            Div(Mul(Mul(f, Div(pipe_length, Mul(pipeRadius, Num(2)))),
                    Mul(density, Mul(velocity, velocity))),
                Num(2))
    IN IF IsZero(pipe_area) THEN Raise("ZeroDivisionError")
       ELSE IF IsZero(viscosity) THEN Raise("ZeroDivisionError")
       ELSE IF Less(reynolds_number, LaminarLimit) /\ IsZero(reynolds_number)
            THEN Raise("ZeroDivisionError")
       ELSE Return([velocityField |-> Slice(results, 0, 3),
                    pressureField |-> Slice(results, 3, 6),
                    turbulenceField |-> Slice(results, 6, 8),
                    reynoldsNumber |-> reynolds_number,
                    frictionFactor |-> f,
                    pressureDrop |-> pressure_drop,
                    velocity |-> velocity])

\* TankPhysicsSimulator.simulate_fluid_dynamics
simulate_fluid_dynamics(self, parameters) ==
    LET temperature == Get(parameters, "temperature", DefaultTemperature)
        pressure == Get(parameters, "pressure", DefaultPressure)
        flow_rate == Get(parameters, "flowRate", DefaultFlowRate)
        geometry == Get(parameters, "geometry", EmptyDict)
        fluid_properties == Get(parameters, "materialProperties", EmptyDict)
        returned == compute_fluid_dynamics(self.fluid_dynamics_model, temperature,
                                       pressure, flow_rate, geometry, fluid_properties)
    IN The({
    LET call == c
        fluid_result == call.value
        time_horizon == Get(parameters, "timeHorizon", DefaultTimeHorizon)
        time_steps == TimeSteps(TimeStepsCap, time_horizon)
        predicted_states ==
            [k \in Range(time_steps) |->
                LET time_factor == TimeFactor(k - 1, time_steps)
                    velocity_evolution ==
                        Mul(fluid_result.velocity,
                            Add(Num(1),
                                Mul(F(1, -1), Sin(Mul(Mul(time_factor, Num(2)), Pi)))))
                    pressure_evolution ==
                        Sub(pressure, Mul(fluid_result.pressureDrop, time_factor))
                IN << velocity_evolution, pressure_evolution >>]
    IN IF call.raised # "none" THEN call
       ELSE Return([predictedStates |-> predicted_states,
                    temperatureField |->
                        << << temperature, temperature, temperature, temperature >> >>,
                    pressureField |-> << fluid_result.pressureField >>,
                    flowVelocity |-> << fluid_result.velocityField >>,
                    heatFlux |-> << Num(0), Num(0) >>,
                    efficiency |-> F(85, -2),
                    confidence |-> F(88, -2),
                    energyConsumption |-> F(1, -1),
                    optimalSetpoints |->
                        [temperature |-> temperature,
                         flowRate |-> Mul(flow_rate, F(105, -2)),
                         pressure |-> Mul(pressure, F(11, -1))],
                    additionalMetrics |->
                        [reynoldsNumber |-> fluid_result.reynoldsNumber,
                         frictionFactor |-> fluid_result.frictionFactor,
                         pressureDrop |-> fluid_result.pressureDrop]])
    : c \in {returned} })

----------------------------------------------------------------------------
(* Multi-phase flow. *)

\* MultiPhaseFlowModel.compute_multi_phase_flow.  viscosity comes out of
\* np.exp and is a numpy float, and so is everything computed from it:
\* dividing by it when it is zero, or 64 by a zero Reynolds number, gives
\* inf or nan and raises nothing.  flow_rate / pipe_area divides Python
\* floats.
compute_multi_phase_flow(model, temperature, pressure, flow_rate, geometry, asphalt_properties) ==
    LET viscosity_relation ==
            Get(asphalt_properties, "viscosityTemperatureRelation",
                DefaultViscosityTemperatureRelation)
        viscosity ==
            Mul(viscosity_relation.a,
                Exp(Add(Mul(viscosity_relation.b, temperature),
                        Mul(viscosity_relation.c, Mul(temperature, temperature)))))
        density == Get(asphalt_properties, "density", DefaultAsphaltDensity)
        pipeRadius == Get(geometry, "pipeRadius", DefaultAsphaltPipeRadius)
        pipe_length == Get(geometry, "pipeLength", DefaultAsphaltPipeLength)
        inputs == << temperature, pressure, flow_rate, viscosity, density,
                     pipeRadius, pipe_length,
                     Get(geometry, "roughness", DefaultRoughness),
                     Get(asphalt_properties, "specificHeat", DefaultAsphaltSpecificHeat),
                     Get(asphalt_properties, "thermalConductivity",
                         DefaultAsphaltThermalConductivity) >>
        results == Forward(model, inputs)
        pipe_area == Mul(Pi, Mul(pipeRadius, pipeRadius))
        velocity == Div(flow_rate, pipe_area)
        reynolds_number ==
            Div(Mul(Mul(Mul(density, velocity), pipeRadius), Num(2)), viscosity)
        f == friction_factor(reynolds_number, AsphaltLaminarLimit)
        pressure_drop ==
            Div(Mul(Mul(f, Div(pipe_length, Mul(pipeRadius, Num(2)))),
                    Mul(density, Mul(velocity, velocity))),
                Num(2))
    IN IF IsZero(pipe_area) THEN Raise("ZeroDivisionError")
       ELSE Return([velocityField |-> Slice(results, 0, 3),
                    pressureField |-> Slice(results, 3, 6),
                    temperatureField |-> Slice(results, 6, 8),
                    viscosityField |-> Slice(results, 8, 10),
                    reynoldsNumber |-> reynolds_number,
                    frictionFactor |-> f,
                    pressureDrop |-> pressure_drop,
                    effectiveViscosity |-> viscosity,
                    velocity |-> velocity])

\* TankPhysicsSimulator.simulate_multi_phase
simulate_multi_phase(self, parameters) ==
    LET temperature == Get(parameters, "temperature", DefaultAsphaltTemperature)
        pressure == Get(parameters, "pressure", DefaultAsphaltPressure)
        flow_rate == Get(parameters, "flowRate", DefaultAsphaltFlowRate)
        geometry == Get(parameters, "geometry", EmptyDict)
        asphalt_properties == Get(parameters, "materialProperties", EmptyDict)
        returned == compute_multi_phase_flow(self.multi_phase_model, temperature,
                                         pressure, flow_rate, geometry,
                                         asphalt_properties)
    IN The({
    LET call == c
        flow_result == call.value
        time_horizon == Get(parameters, "timeHorizon", DefaultAsphaltTimeHorizon)
        time_steps == TimeSteps(AsphaltTimeStepsCap, time_horizon)
        predicted_states ==
            [k \in Range(time_steps) |->
                LET time_factor == TimeFactor(k - 1, time_steps)
                    temp_evolution == Sub(temperature, Mul(Num(2), time_factor))
                    viscosity_evolution ==
                        Mul(flow_result.effectiveViscosity,
                            Add(Num(1), Mul(F(5, -1), time_factor)))
                IN << temp_evolution, viscosity_evolution >>]
    IN IF call.raised # "none" THEN call
       ELSE Return([predictedStates |-> predicted_states,
                    temperatureField |-> << flow_result.temperatureField >>,
                    pressureField |-> << flow_result.pressureField >>,
                    flowVelocity |-> << flow_result.velocityField >>,
                    heatFlux |-> << Num(0), Num(0) >>,
                    efficiency |-> F(78, -2),
                    confidence |-> F(85, -2),
                    energyConsumption |-> F(5, -2),
                    optimalSetpoints |->
                        [temperature |-> Add(temperature, Num(5)),
                         flowRate |-> Mul(flow_rate, F(95, -2)),
                         pressure |-> Mul(pressure, F(115, -2))],
                    additionalMetrics |->
                        [reynoldsNumber |-> flow_result.reynoldsNumber,
                         effectiveViscosity |-> flow_result.effectiveViscosity,
                         pressureDrop |-> flow_result.pressureDrop]])
    : c \in {returned} })

----------------------------------------------------------------------------
(* External flow. *)

\* ExternalFlowModel.compute_external_flow: FullyConnectedArch, Key, Domain,
\* NavierStokes and Solver are names bound only when the modulus import
\* succeeded; the drag coefficient is the constant 0.5.
\* Mutant: the drag coefficient comes out of the division by the ball radius.
compute_external_flow_drag(fluid_velocity, fluid_viscosity, fluid_density, ball_radius) ==
    IF ~MODULUS_AVAILABLE THEN Raise("NameError")
    ELSE Return([drag_coefficient |-> Div(Neg(fluid_density), ball_radius), image |-> "png"])

compute_external_flow(fluid_velocity, fluid_viscosity, fluid_density, ball_radius) ==
    IF ~MODULUS_AVAILABLE THEN Raise("NameError")
    ELSE Return([drag_coefficient |-> F(5, -1), image |-> "png"])

\* TankPhysicsSimulator.simulate_external_flow_golf_ball
simulate_external_flow_golf_ball(self, parameters) ==
    LET fluid_velocity ==
            Get(parameters, "fluid_velocity", << Num(10), Num(0), Num(0) >>)
        fluid_viscosity == Get(parameters, "fluid_viscosity", F(181, -7))
        fluid_density == Get(parameters, "fluid_density", F(1225, -3))
        ball_radius == Get(parameters, "ball_radius", F(2135, -5))
        returned == compute_external_flow(fluid_velocity, fluid_viscosity,
                                      fluid_density, ball_radius)
    IN The({
    LET call == c
        external_flow_result == call.value
    IN IF call.raised # "none" THEN call
       ELSE Return([predictedStates |-> <<>>,
                    temperatureField |-> <<>>,
                    pressureField |-> <<>>,
                    flowVelocity |-> <<>>,
                    heatFlux |-> <<>>,
                    efficiency |-> Num(0),
                    confidence |-> F(9, -1),
                    energyConsumption |-> Num(0),
                    optimalSetpoints |-> EmptyDict,
                    additionalMetrics |->
                        [dragCoefficient |-> external_flow_result.drag_coefficient]])
    : c \in {returned} })

----------------------------------------------------------------------------
(* Routing. *)

\* The if/elif chain of main: the routine run for a simulation type, "none"
\* for the else branch.
Route(simulation_type) ==
    CASE simulation_type = "thermal_coil" -> "simulate_thermal_coil"
      [] simulation_type = "fluid_dynamics" -> "simulate_fluid_dynamics"
      [] simulation_type = "multi_phase" -> "simulate_multi_phase"
      [] simulation_type = "external_flow_golf_ball" -> "simulate_external_flow_golf_ball"
      [] OTHER -> "none"

\* await self.<routine>(parameters): the dict returned or the
\* exception raised (each routine re-raises what it catches).
Simulate(routine, self, parameters) ==
    CASE routine = "simulate_thermal_coil" -> simulate_thermal_coil(self, parameters)
      [] routine = "simulate_fluid_dynamics" -> simulate_fluid_dynamics(self, parameters)
      [] routine = "simulate_multi_phase" -> simulate_multi_phase(self, parameters)
      [] routine = "simulate_external_flow_golf_ball" ->
             simulate_external_flow_golf_ball(self, parameters)

SimulateRaises(routine, parameters) == Simulate(routine, simulator, parameters).raised

\* Mutant: the result depends on how many lines the loop has read.
Result_stateful(routine, parameters) ==
    [Simulate(routine, simulator, parameters).value EXCEPT !.efficiency = Num(Len(stdin))]

\* What the routine returns to main.
Result(routine, parameters) == Simulate(routine, simulator, parameters).value

----------------------------------------------------------------------------
(* Records written by main. *)

\* Mutant: the response is built without the request's tankId.
Response_notank(request_id, tank_id, result) ==
    ("requestId" :> request_id) @@ ("tankId" :> 0) @@ result

\* response = {'requestId': request_id, 'tankId': tank_id, **result}
Response(request_id, tank_id, result) ==
    ("requestId" :> request_id) @@ ("tankId" :> tank_id) @@ result

\* Mutant: the decode-error record is built without a requestId.
InvalidJsonResponse_noid == ("error" :> "Invalid JSON")

\* except json.JSONDecodeError
InvalidJsonResponse == ("error" :> "Invalid JSON") @@ ("requestId" :> "unknown")

\* except Exception: 'requestId': request.get('requestId', 'unknown')
ErrorResponse(req, e) ==
    ("error" :> e) @@ ("requestId" :> Get(req, "requestId", "unknown"))

----------------------------------------------------------------------------
(* The process. *)

Init ==
    /\ pc = "start"
    /\ simulator = NoSimulator
    /\ MODULUS_AVAILABLE \in BOOLEAN
    /\ stdin = <<>>
    /\ line = NoLine
    /\ request = Unbound
    /\ exc = "none"
    /\ stdout = [buf |-> <<>>, flushed |-> <<>>]
    /\ faults = 0
    /\ exitStatus = -1
    /\ handling = 0
    /\ cause = <<>>
    /\ called = <<>>

\* A stream operation may fail; the model bounds how often.
StreamMayFail == faults < MaxFaults

\* Mutant: the marker is printed but not flushed before the loop.
Start_unflushed ==
    /\ pc = "start"
    /\ \E w \in Weights : simulator' = TankPhysicsSimulator(w)
    /\ stdout' = print(stdout, Marker)
    /\ cause' = Append(cause, 0)
    /\ pc' = "read"
    /\ UNCHANGED <<called, MODULUS_AVAILABLE, stdin, line, request, exc, faults, exitStatus, handling>>

\* main, before the loop: build the simulator, print the marker, flush.
Start ==
    /\ pc = "start"
    /\ \E w \in Weights : simulator' = TankPhysicsSimulator(w)
    /\ \/ /\ stdout' = Write(stdout, Marker)
          /\ cause' = Append(cause, 0)
          /\ pc' = "read"
          /\ UNCHANGED <<exc, faults>>
       \/ /\ StreamMayFail
          /\ faults' = faults + 1
          /\ exc' = "OSError"
          /\ pc' = "raised"
          /\ UNCHANGED <<stdout, cause>>
    /\ UNCHANGED <<called, MODULUS_AVAILABLE, stdin, line, request, exitStatus, handling>>

\* line = sys.stdin.readline() returns one of the lines of S, at most max
\* times in a run.
ReadLineFrom(S, max) ==
    /\ pc = "read"
    /\ Len(stdin) < max
    /\ \E l \in S :
          /\ line' = l
          /\ stdin' = Append(stdin, l)
    /\ handling' = Len(stdin) + 1
    /\ called' = <<>>
    /\ pc' = "try"
    /\ UNCHANGED <<simulator, MODULUS_AVAILABLE, request, exc, stdout, faults, exitStatus, cause>>

\* line = sys.stdin.readline() returns a line.
ReadLine == ReadLineFrom(Lines, MaxLines)

\* readline() returns '' at end of stream: `if not line: break`.
ReadEOF ==
    /\ pc = "read"
    /\ line' = EOF
    /\ handling' = 0
    /\ pc' = "return"
    /\ UNCHANGED <<called, simulator, MODULUS_AVAILABLE, stdin, request, exc, stdout,
                   faults, exitStatus, cause>>

\* readline() raises: the call is inside the try, so `except Exception`
\* takes it; `line` is not assigned.
ReadFails ==
    /\ pc = "read"
    /\ StreamMayFail
    /\ faults' = faults + 1
    /\ exc' = "OSError"
    /\ handling' = 0
    /\ pc' = "except"
    /\ UNCHANGED <<called, simulator, MODULUS_AVAILABLE, stdin, line, request, stdout,
                   exitStatus, cause>>

\* The rest of the try body: decode, route, simulate, respond.
TryBody ==
    /\ pc = "try"
    /\ LET decoded == JsonLoads(Strip(line)) IN
       IF decoded.raised
       THEN /\ exc' = "JSONDecodeError"
            /\ pc' = "except_json"
            /\ UNCHANGED <<request, stdout, faults, cause, called>>
       ELSE
         /\ request' = decoded.value
         /\ IF ~decoded.value.isDict
            THEN \* request.get on a value that is no dict
                 /\ exc' = "AttributeError"
                 /\ pc' = "except"
                 /\ UNCHANGED <<stdout, faults, cause, called>>
            ELSE
              LET req == decoded.value.d
                  request_id == Get(req, "requestId", "unknown")
                  simulation_type == Get(req, "simulationType", "unknown")
                  tank_id == Get(req, "tankId", 0)
                  routine == Route(simulation_type)
                  parameters == Get(req, "parameters", EmptyDict)
              IN
              IF routine = "none"
              THEN /\ exc' = "ValueError"
                   /\ pc' = "except"
                   /\ UNCHANGED <<stdout, faults, cause, called>>
              ELSE LET raised == SimulateRaises(routine, parameters) IN
              IF raised # "none"
              THEN /\ exc' = raised
                   /\ called' = Append(called, routine)
                   /\ pc' = "except"
                   /\ UNCHANGED <<stdout, faults, cause>>
              ELSE \/ /\ stdout' = Write(stdout, Response(request_id, tank_id, Result(routine, parameters)))
                      /\ cause' = Append(cause, handling)
                      /\ called' = Append(called, routine)
                      /\ pc' = "read"
                      /\ UNCHANGED <<exc, faults>>
                   \/ /\ StreamMayFail
                      /\ faults' = faults + 1
                      /\ exc' = "OSError"
                      /\ called' = Append(called, routine)
                      /\ pc' = "except"
                      /\ UNCHANGED <<stdout, cause>>
    /\ UNCHANGED <<simulator, MODULUS_AVAILABLE, stdin, line, exitStatus, handling>>

\* except json.JSONDecodeError
ExceptJSONDecodeError ==
    /\ pc = "except_json"
    /\ \/ /\ stdout' = Write(stdout, InvalidJsonResponse)
          /\ cause' = Append(cause, handling)
          /\ exc' = "none"
          /\ pc' = "read"
          /\ UNCHANGED faults
       \/ /\ StreamMayFail
          /\ faults' = faults + 1
          /\ exc' = "OSError"
          /\ pc' = "raised"
          /\ UNCHANGED <<stdout, cause>>
    /\ UNCHANGED <<called, simulator, MODULUS_AVAILABLE, stdin, line, request,
                   exitStatus, handling>>

\* except Exception: the handler logs traceback.format_exc(), then
\* evaluates request.get('requestId', ...) on whatever `request` holds at
\* that moment, then prints the error record.
ExceptException ==
    /\ pc = "except"
    /\ IF "traceback" \notin ImportedModules
       THEN \* the name traceback is not bound
            /\ exc' = "NameError"
            /\ pc' = "raised"
            /\ UNCHANGED <<stdout, faults, cause>>
       ELSE IF ~request.bound
       THEN /\ exc' = "UnboundLocalError"
            /\ pc' = "raised"
            /\ UNCHANGED <<stdout, faults, cause>>
       ELSE IF ~request.isDict
       THEN /\ exc' = "AttributeError"
            /\ pc' = "raised"
            /\ UNCHANGED <<stdout, faults, cause>>
       ELSE \/ /\ stdout' = Write(stdout, ErrorResponse(request.d, exc))
               /\ cause' = Append(cause, handling)
               /\ exc' = "none"
               /\ pc' = "read"
               /\ UNCHANGED faults
            \/ /\ StreamMayFail
               /\ faults' = faults + 1
               /\ exc' = "OSError"
               /\ pc' = "raised"
               /\ UNCHANGED <<stdout, cause>>
    /\ UNCHANGED <<called, simulator, MODULUS_AVAILABLE, stdin, line, request,
                   exitStatus, handling>>

\* __main__: asyncio.run(main()) returns.
MainReturns ==
    /\ pc = "return"
    /\ exitStatus' = 0
    /\ pc' = "done"
    /\ UNCHANGED <<called, simulator, MODULUS_AVAILABLE, stdin, line, request, exc,
                   stdout, faults, handling, cause>>

\* __main__: except Exception -> sys.exit(1)
FatalError ==
    /\ pc = "raised"
    /\ exitStatus' = 1
    /\ pc' = "done"
    /\ UNCHANGED <<called, simulator, MODULUS_AVAILABLE, stdin, line, request, exc,
                   stdout, faults, handling, cause>>

Next ==
    \/ Start
    \/ ReadLine
    \/ ReadEOF
    \/ ReadFails
    \/ TryBody
    \/ ExceptJSONDecodeError
    \/ ExceptException
    \/ MainReturns
    \/ FatalError

Spec == Init /\ [][Next]_vars

\* line = sys.stdin.readline() returns a request of the requests alphabet.
ReadRequest == ReadLineFrom(RequestLines, MaxRequests)

\* The process as Start leaves it: simulator built (with the first of the
\* weights), marker written and flushed, about to read its first line.
RequestInit ==
    /\ pc = "read"
    /\ simulator = TankPhysicsSimulator(1)
    /\ MODULUS_AVAILABLE \in BOOLEAN
    /\ stdin = <<>>
    /\ line = NoLine
    /\ request = Unbound
    /\ exc = "none"
    /\ stdout = Write([buf |-> <<>>, flushed |-> <<>>], Marker)
    /\ faults = 0
    /\ exitStatus = -1
    /\ handling = 0
    /\ cause = <<0>>
    /\ called = <<>>

RequestNext ==
    \/ ReadRequest
    \/ ReadEOF
    \/ ReadFails
    \/ TryBody
    \/ ExceptJSONDecodeError
    \/ ExceptException
    \/ MainReturns
    \/ FatalError

\* The process, once started, fed from the requests alphabet.
RequestSpec == RequestInit /\ [][RequestNext]_vars

TypeOK ==
    /\ pc \in {"start", "read", "try", "except_json", "except", "return", "raised", "done"}
    /\ faults \in 0..MaxFaults
    /\ Len(stdin) <= MaxLines
    /\ exitStatus \in {-1, 0, 1}
    /\ handling \in {0, Len(stdin)}
    /\ Len(cause) = Len(stdout.flushed) + Len(stdout.buf)

----------------------------------------------------------------------------
(* Vocabulary of the properties. *)

Written == stdout.flushed

\* Positions in the output of the records printed while line i was handled.
RecordsFor(i) == { j \in 1..Len(Written) : cause[j] = i }

IsError(rec) == "error" \in DOMAIN rec /\ "requestId" \in DOMAIN rec

IsSuccess(rec) == "predictedStates" \in DOMAIN rec /\ "requestId" \in DOMAIN rec

\* The iteration that read line i is over and the loop went on.
Answered(i) ==
    \/ i < Len(stdin)
    \/ i = Len(stdin) /\ (pc \in {"read", "return"} \/ (pc = "done" /\ exitStatus = 0))

\* The iteration that read line i is still inside the try statement.
InIteration(i) == i = Len(stdin) /\ handling = i /\ pc \in {"try", "except_json", "except"}

Undecodable(l) == l.kind \in {"blank", "garbage"}

IsObject(l) == l.kind = "object"

\* requestId / tankId a caller expects back for an object line.
SentRequestId(l) == IF "requestId" \in DOMAIN l.obj THEN l.obj["requestId"] ELSE "unknown"

SentTankId(l) == IF "tankId" \in DOMAIN l.obj THEN l.obj["tankId"] ELSE 0

SentType(l) == IF "simulationType" \in DOMAIN l.obj THEN l.obj["simulationType"] ELSE "unknown"

----------------------------------------------------------------------------
\* C1: a line that cannot be decoded as JSON (a whitespace-only line
\* included) gets exactly one record, an error record with requestId
\* "unknown"; unless a stream fails, the process is then back at the read
\* of the next line (or has left the loop at end of stream), never dead.
C1_UndecodableLine ==
    \A i \in 1..Len(stdin) :
        Undecodable(stdin[i]) =>
            /\ Cardinality(RecordsFor(i)) <= 1
            /\ \A j \in RecordsFor(i) :
                   IsError(Written[j]) /\ Written[j]["requestId"] = "unknown"
            /\ Answered(i) => Cardinality(RecordsFor(i)) = 1
            /\ (faults = 0 /\ ~InIteration(i)) => Answered(i)

\* A blank line was answered and the object line after it was answered too.
C1_Witness ==
    \E i \in 1..Len(stdin) :
        /\ stdin[i].kind = "blank"
        /\ i < Len(stdin)
        /\ IsObject(stdin[i + 1])
        /\ Cardinality(RecordsFor(i)) = 1
        /\ \E j \in RecordsFor(i + 1) : IsSuccess(Written[j])
        /\ faults = 0

\* C2: an object that names a simulationType which is not routed gets an
\* error record that carries the requestId of that very object.
C2_UnknownTypeKeepsRequestId ==
    \A i \in 1..Len(stdin) :
        (/\ IsObject(stdin[i])
         /\ "simulationType" \in DOMAIN stdin[i].obj
         /\ SentType(stdin[i]) \notin SupportedTypes) =>
            /\ \A j \in RecordsFor(i) :
                   IsError(Written[j]) /\ Written[j]["requestId"] = SentRequestId(stdin[i])
            /\ (faults = 0 /\ ~InIteration(i)) => Cardinality(RecordsFor(i)) = 1

\* A fluid_dynamics request whose viscosity or flow rate (hence Reynolds
\* number) is zero.
DividesByZero(l) ==
    /\ IsObject(l)
    /\ SentType(l) = "fluid_dynamics"
    /\ "parameters" \in DOMAIN l.obj
    /\ \/ /\ "flowRate" \in DOMAIN l.obj["parameters"]
          /\ IsZero(l.obj["parameters"]["flowRate"])
       \/ /\ "materialProperties" \in DOMAIN l.obj["parameters"]
          /\ IsZero(l.obj["parameters"]["materialProperties"]["viscosity"])

\* C3: when the physics routine raises (division by a zero viscosity or by
\* a zero Reynolds number), the failure is caught per request: the line
\* gets an error record with its own requestId.
C3_RaisingRoutineReported ==
    \A i \in 1..Len(stdin) :
        DividesByZero(stdin[i]) =>
            /\ \A j \in RecordsFor(i) :
                   IsError(Written[j]) /\ Written[j]["requestId"] = SentRequestId(stdin[i])
            /\ (faults = 0 /\ ~InIteration(i)) => Cardinality(RecordsFor(i)) = 1

\* C4: the loop stops only at end of stream or on a stream failure; no
\* single line ends it.
C4_StopsOnlyAtEofOrStreamFailure ==
    pc \in {"return", "raised", "done"} => (line = EOF \/ faults > 0)

\* C5: every line read gets exactly one record: once its iteration is over
\* (and no stream failed) there is one record for it, never none, never two,
\* so the output holds the marker and one record per line.
C5_OneRecordPerLine ==
    faults = 0 =>
        /\ \A i \in 1..Len(stdin) :
               /\ Cardinality(RecordsFor(i)) <= 1
               /\ ~InIteration(i) => Cardinality(RecordsFor(i)) = 1
        /\ pc \in {"read", "return", "raised", "done"} => Len(Written) = Len(stdin) + 1

\* C6: one request at a time, in arrival order: nothing printed is left
\* unflushed when the next line is read, every line before the latest one
\* read has its record in the output, and the records stand in the order
\* of the lines that caused them.
C6_InOrderOneAtATime ==
    /\ pc \in {"read", "try"} => stdout.buf = <<>>
    /\ \A i \in 1..Len(stdin) : i < Len(stdin) => RecordsFor(i) # {}
    /\ \A j, k \in 1..Len(Written) :
           (j < k /\ cause[k] # 0) => cause[j] < cause[k]
    /\ handling \in {0, Len(stdin)}

\* Two lines read, both answered, records in the order of the lines.
C6_Witness ==
    /\ Len(stdin) = 2
    /\ IsObject(stdin[1]) /\ IsObject(stdin[2])
    /\ SentRequestId(stdin[1]) = "r2" /\ SentRequestId(stdin[2]) = "r1"
    /\ Len(Written) = 3
    /\ Written[2]["requestId"] = "r2" /\ Written[3]["requestId"] = "r1"
    /\ cause = <<0, 1, 2>>
    /\ pc = "read"

\* C7: a record written for a line that decoded to an object carries that
\* object's requestId ("unknown" when it has none), be it a success or an
\* error record; a success record carries its tankId too (0 when absent).
C7_RequestIdEchoed ==
    \A i \in 1..Len(stdin) :
        IsObject(stdin[i]) =>
            \A j \in RecordsFor(i) :
                /\ IsSuccess(Written[j]) \/ IsError(Written[j])
                /\ Written[j]["requestId"] = SentRequestId(stdin[i])
                /\ IsSuccess(Written[j]) =>
                       /\ "tankId" \in DOMAIN Written[j]
                       /\ Written[j]["tankId"] = SentTankId(stdin[i])

\* A success record for (r2, tank 3) followed by one for r1 without tankId.
C7_Witness ==
    /\ Len(stdin) = 2
    /\ IsObject(stdin[1]) /\ IsObject(stdin[2])
    /\ "tankId" \notin DOMAIN stdin[2].obj
    /\ \E j \in RecordsFor(1) :
           /\ IsSuccess(Written[j])
           /\ Written[j]["requestId"] = "r2" /\ Written[j]["tankId"] = 3
    /\ \E j \in RecordsFor(2) :
           /\ IsSuccess(Written[j])
           /\ Written[j]["requestId"] = "r1" /\ Written[j]["tankId"] = 0

\* C8: a read that returns the empty string writes nothing, and a run that
\* no stream failure disturbs ends with status 0 and every line answered.
C8_EofEndsRunNormally ==
    /\ pc = "return" => (line = EOF /\ stdout.buf = <<>>)
    /\ (pc = "done" /\ faults = 0) =>
           /\ exitStatus = 0
           /\ \A i \in 1..Len(stdin) : RecordsFor(i) # {}

Printed == stdout.flushed \o stdout.buf

MarkerCount == Cardinality({ j \in 1..Len(Printed) : Printed[j] = Marker })

\* C9: the marker is printed at most once, only once the simulator exists;
\* it is the first thing written, and it is out before the first read.
C9_ReadinessMarkerFirst ==
    /\ MarkerCount <= 1
    /\ MarkerCount = 1 => simulator # NoSimulator
    /\ Len(Written) >= 1 => Written[1] = Marker
    /\ (pc \in {"read", "try", "except_json", "except", "return"} \/ Len(stdin) > 0
           \/ line = EOF \/ exitStatus = 0)
         => (Len(Written) >= 1 /\ Written[1] = Marker)

\* A whole run: marker, two records, normal exit.
C9_Witness ==
    /\ pc = "done" /\ exitStatus = 0
    /\ Len(stdin) = 2
    /\ Len(Written) = 3
    /\ Written[1] = Marker
    /\ MarkerCount = 1

\* C10: from the step at which a read or a write fails, nothing more is
\* written, the loop is not entered again, and the process ends with
\* status 1.
C10_StreamFailureIsFatal ==
    [][ faults' > 0 =>
          /\ stdout' = stdout
          /\ pc' \in {"except", "raised", "done"}
          /\ pc' = "done" => exitStatus' = 1 ]_vars

\* One line was answered, the next read failed, the process exited with 1.
C10_Witness ==
    /\ pc = "done" /\ exitStatus = 1
    /\ faults = 1
    /\ Len(stdin) = 1 /\ Len(Written) = 2
    /\ handling = 0 /\ line # EOF

----------------------------------------------------------------------------
(* Routing and the physics routines. *)

\* The simulationType values of the data model and the routine of each.
DataModelTypes == {"thermal_coil", "fluid_dynamics", "multi_phase", "external_flow"}

RoutineOf(t) ==
    CASE t = "thermal_coil" -> "simulate_thermal_coil"
      [] t = "fluid_dynamics" -> "simulate_fluid_dynamics"
      [] t = "multi_phase" -> "simulate_multi_phase"
      [] t = "external_flow" -> "simulate_external_flow_golf_ball"

\* The latest line read is an object and main is past its routing.
LastRouted ==
    /\ Len(stdin) > 0
    /\ IsObject(stdin[Len(stdin)])
    /\ handling = Len(stdin) => pc # "try"

\* C11: a request whose simulationType is one of the four values of the
\* data model runs the routine of that type and no other; any other value
\* runs no routine and fails with the unknown-simulation-type error.
C11_RoutedByDataModelType ==
    LastRouted =>
        LET t == SentType(stdin[Len(stdin)])
        IN IF t \in DataModelTypes
           THEN called = << RoutineOf(t) >>
           ELSE /\ called = <<>>
                /\ (pc = "except" /\ handling = Len(stdin)) => exc = "ValueError"

\* The analytical scalars of a success record: efficiency, energy and the
\* additional metrics (Reynolds number, friction factor, pressure drop,
\* effective viscosity, Nusselt number, surface area, drag coefficient).
AnalyticalScalars(rec) ==
    LET r == rec
    IN [efficiency |-> r["efficiency"],
        energyConsumption |-> r["energyConsumption"],
        additionalMetrics |-> r["additionalMetrics"]]

SentParameters(l) ==
    IF "parameters" \in DOMAIN l.obj THEN l.obj["parameters"] ELSE EmptyDict

\* The iteration that read line i has just ended with a record written.
JustAnswered(i) == i = Len(stdin) /\ handling = i /\ pc = "read"

\* Lines i < j carry the same request and both got a success record.
AnsweredTwice(i, j) ==
    /\ i < j
    /\ IsObject(stdin[i])
    /\ stdin[i] = stdin[j]
    /\ \E a \in RecordsFor(i) : IsSuccess(Written[a])
    /\ \E b \in RecordsFor(j) : IsSuccess(Written[b])

C12_ScalarsAreAFunctionOfTheRequest ==
    /\ \A i, j \in 1..Len(stdin) :
           AnsweredTwice(i, j) =>
               \A a \in RecordsFor(i), b \in RecordsFor(j) :
                   AnalyticalScalars(Written[a]) = AnalyticalScalars(Written[b])
    /\ \A i \in 1..Len(stdin) : \A a \in RecordsFor(i) :
           (JustAnswered(i) /\ IsObject(stdin[i]) /\ IsSuccess(Written[a])) =>
               \A w \in Weights :
                   AnalyticalScalars(Written[a]) =
                       AnalyticalScalars(
                           Simulate(Route(SentType(stdin[i])), TankPhysicsSimulator(w),
                                    SentParameters(stdin[i])).value)

----------------------------------------------------------------------------
(* Trajectories. *)

\* The latest line read, once one was read.
LastLine == stdin[Len(stdin)]

\* The latest line read is an object whose iteration is running or just over.
LastIsRequest == Len(stdin) > 0 /\ handling = Len(stdin) /\ IsObject(LastLine)

\* Success records written for the latest line.
LastSuccesses ==
    { Written[a] : a \in { b \in RecordsFor(Len(stdin)) : IsSuccess(Written[b]) } }

\* The horizon a request asks for: its timeHorizon, or the default of its type.
HorizonOf(l) ==
    LET p == SentParameters(l)
    IN IF "timeHorizon" \in DOMAIN p THEN p["timeHorizon"]
       ELSE IF SentType(l) = "multi_phase" THEN 1800 ELSE 3600

FloorMin(cap, h) == IF h \div 60 < cap THEN h \div 60 ELSE cap

\* C13: for a non-negative integer timeHorizon the trajectory of a success
\* record has min(cap, timeHorizon // 60) samples, cap 60 for thermal_coil
\* and fluid_dynamics and 30 for multi_phase; timeHorizon 0 gives the empty
\* trajectory; an absent timeHorizon counts as 3600 (1800 for multi_phase).
C13_TrajectoryLength ==
    (LastIsRequest /\ pc = "read" /\ SentType(LastLine) \in TrajectoryTypes
        /\ HorizonOf(LastLine) >= 0) =>
        \A rec \in LastSuccesses :
            /\ Len(rec["predictedStates"]) =
                   FloorMin(Cap(SentType(LastLine)), HorizonOf(LastLine))
            /\ HorizonOf(LastLine) = 0 => rec["predictedStates"] = <<>>

\* A thermal-coil request with timeHorizon 3599 was answered with 59 samples.
C13_Witness ==
    /\ LastIsRequest /\ pc = "read"
    /\ SentType(LastLine) = "thermal_coil"
    /\ HorizonOf(LastLine) = 3599
    /\ \E rec \in LastSuccesses : Len(rec["predictedStates"]) = 59

C14_WitnessFarAbove ==
    /\ LastIsRequest /\ pc = "read"
    /\ HorizonOf(LastLine) > 60 * 60 * 2
    /\ \E rec \in LastSuccesses :
           Len(rec["predictedStates"]) = Cap(SentType(LastLine))

----------------------------------------------------------------------------
(* Flow regime. *)

\* parameters[group][key] of a request line, d when absent.
ParamOf(l, group, key, d) ==
    Get(Get(SentParameters(l), group, EmptyDict), key, d)

\* 64/Re below the limit, 0.316/Re^0.25 from the limit on.
RegimeFriction(re, limit) ==
    IF Less(re, Num(limit)) THEN Div(Num(64), re) ELSE Div(F(316, -3), Pow025(re))

\* Darcy-Weisbach pressure drop of a multi-phase request for friction factor f.
AsphaltPressureDrop(l, f) ==
    LET r == ParamOf(l, "geometry", "pipeRadius", DefaultAsphaltPipeRadius)
        len == ParamOf(l, "geometry", "pipeLength", DefaultAsphaltPipeLength)
        rho == ParamOf(l, "materialProperties", "density", DefaultAsphaltDensity)
        v == Div(Get(SentParameters(l), "flowRate", DefaultAsphaltFlowRate),
                 Mul(Pi, Mul(r, r)))
    IN Div(Mul(Mul(f, Div(len, Mul(r, Num(2)))), Mul(rho, Mul(v, v))), Num(2))

\* Reynolds number of a multi-phase request at viscosity mu.
AsphaltReynolds(l, mu) ==
    LET r == ParamOf(l, "geometry", "pipeRadius", DefaultAsphaltPipeRadius)
        rho == ParamOf(l, "materialProperties", "density", DefaultAsphaltDensity)
        v == Div(Get(SentParameters(l), "flowRate", DefaultAsphaltFlowRate),
                 Mul(Pi, Mul(r, r)))
    IN Div(Mul(Mul(Mul(rho, v), r), Num(2)), mu)

\* C15: the friction factor a fluid-dynamics record reports is 64/Re when
\* its Reynolds number is below 2300 and 0.316/Re^0.25 otherwise, 2300
\* itself included; a multi-phase record reports the Reynolds number at
\* its temperature-dependent effective viscosity and the pressure drop of
\* the friction factor that switches in the same way at 2100.
C15_FrictionFactorRegime ==
    (LastIsRequest /\ pc = "read") =>
        \A rec \in LastSuccesses :
            LET m == rec["additionalMetrics"] IN
            /\ SentType(LastLine) = "fluid_dynamics" =>
                   m.frictionFactor = RegimeFriction(m.reynoldsNumber, 2300)
            /\ SentType(LastLine) = "multi_phase" =>
                   /\ m.reynoldsNumber = AsphaltReynolds(LastLine, m.effectiveViscosity)
                   /\ m.pressureDrop =
                          AsphaltPressureDrop(LastLine,
                                              RegimeFriction(m.reynoldsNumber, 2100))

\* A fluid-dynamics request at Re = 2300 exactly was answered with the
\* turbulent friction factor, which is not 64/Re.
C15_Witness ==
    /\ LastIsRequest /\ pc = "read"
    /\ SentType(LastLine) = "fluid_dynamics"
    /\ \E rec \in LastSuccesses :
           LET m == rec["additionalMetrics"] IN
           /\ m.reynoldsNumber = Num(2300)
           /\ m.frictionFactor = Div(F(316, -3), Pow025(Num(2300)))
           /\ m.frictionFactor # Div(Num(64), Num(2300))

\* A fluid-dynamics request just below 2300 was answered with 64/Re.
C15_WitnessLaminar ==
    /\ LastIsRequest /\ pc = "read"
    /\ SentType(LastLine) = "fluid_dynamics"
    /\ \E rec \in LastSuccesses :
           LET m == rec["additionalMetrics"] IN
           /\ m.reynoldsNumber = Num(2298)
           /\ m.frictionFactor = Div(Num(64), Num(2298))

\* A multi-phase request at Re = 2100 exactly was answered with the
\* pressure drop of the turbulent friction factor, not of 64/Re.
C15_WitnessAsphalt ==
    /\ LastIsRequest /\ pc = "read"
    /\ SentType(LastLine) = "multi_phase"
    /\ \E rec \in LastSuccesses :
           LET m == rec["additionalMetrics"] IN
           /\ m.reynoldsNumber = Num(2100)
           /\ m.pressureDrop # AsphaltPressureDrop(LastLine, Div(Num(64), Num(2100)))

\* A multi-phase request just below 2100 was answered with the pressure
\* drop of 64/Re, at a viscosity that depends on its temperature.
C15_WitnessAsphaltLaminar ==
    /\ LastIsRequest /\ pc = "read"
    /\ SentType(LastLine) = "multi_phase"
    /\ \E rec \in LastSuccesses :
           LET m == rec["additionalMetrics"] IN
           /\ Less(m.reynoldsNumber, Num(2100))
           /\ IsFinite(m.pressureDrop) /\ ~IsZero(m.pressureDrop)
           /\ m.pressureDrop = AsphaltPressureDrop(LastLine, Div(Num(64), m.reynoldsNumber))
           /\ m.effectiveViscosity #
                  ParamOf(LastLine, "materialProperties", "viscosityTemperatureRelation",
                          DefaultViscosityTemperatureRelation).a

----------------------------------------------------------------------------
(* Ranges of the analytical scalars. *)

\* 0 <= x, x a finite number.
NonNegative(x) == IsFinite(x) /\ x.m >= 0

\* flowRate * density * specificHeat * (coilInletTemp - tankTemp) of a
\* thermal-coil request.
MaxPossibleHeatTransfer(l) ==
    LET p == SentParameters(l)
        flow_rate == Get(p, "flowRate", DefaultFlowRate)
        density == ParamOf(l, "materialProperties", "density", DefaultDensity)
        specificHeat == ParamOf(l, "materialProperties", "specificHeat", DefaultSpecificHeat)
        delta_t == Sub(ParamOf(l, "boundaryConditions", "coilInletTemp", DefaultCoilInletTemp),
                       Get(p, "temperature", DefaultTemperature))
    IN Mul(Mul(Mul(flow_rate, density), specificHeat), delta_t)

\* C16: the efficiency of every thermal-coil success record lies in
\* [0, 1], and is 0 when the maximum possible heat transfer of the request
\* is not positive.
C16_EfficiencyClamped ==
    (LastIsRequest /\ pc = "read" /\ SentType(LastLine) = "thermal_coil") =>
        \A rec \in LastSuccesses :
            /\ NonNegative(rec["efficiency"])
            /\ ~Less(Num(1), rec["efficiency"])
            /\ ~Less(Num(0), MaxPossibleHeatTransfer(LastLine)) =>
                   IsZero(rec["efficiency"])

\* C17: a fluid-dynamics or multi-phase request whose flowRate, pipeRadius,
\* pipeLength, density and viscosity are not negative, zero included, gets
\* a success record whose pressureDrop is finite and not negative.
C17_PressureDropNonNegative ==
    (LastIsRequest /\ LastLine.obj \in ZeroRequests \cup RegimeRequests) =>
        /\ pc \in {"except", "raised"} => faults > 0
        /\ pc = "read" =>
               /\ LastSuccesses # {}
               /\ \A rec \in LastSuccesses :
                      NonNegative(rec["additionalMetrics"].pressureDrop)

----------------------------------------------------------------------------
(* External flow. *)

\* The simulationType values that ask for the external-flow simulation: the
\* one of the data model and the one main routes.
ExternalFlowTypes == {"external_flow", "external_flow_golf_ball"}

\* C18: a success record written for an external-flow request has the
\* empty trajectory and a drag coefficient that is finite and not negative,
\* the placeholder 0.5, whatever the parameters of the request.
C18_ExternalFlowRecord ==
    (LastIsRequest /\ pc = "read" /\ SentType(LastLine) \in ExternalFlowTypes) =>
        \A rec \in LastSuccesses :
            /\ rec["predictedStates"] = <<>>
            /\ NonNegative(rec["additionalMetrics"].dragCoefficient)
            /\ rec["additionalMetrics"].dragCoefficient = F(5, -1)

\* An external-flow request that sets the ball radius and the fluid density
\* was answered with a success record.
C18_Witness ==
    /\ LastIsRequest /\ pc = "read"
    /\ SentType(LastLine) \in ExternalFlowTypes
    /\ "ball_radius" \in DOMAIN SentParameters(LastLine)
    /\ \E rec \in LastSuccesses : "dragCoefficient" \in DOMAIN rec["additionalMetrics"]

----------------------------------------------------------------------------
(* Defaults and the backend's part in a record. *)

\* The feature vector the backend was run on, read off a record's
\* pressureField (a slice of the backend's output in all three routines).
FeatureVector(rec) == rec["pressureField"][1][1].inputs

\* Length of the feature vector of each type.
InputDim(t) ==
    CASE t = "thermal_coil" -> 8
      [] t = "fluid_dynamics" -> 6
      [] t = "multi_phase" -> 10
      [] t = "external_flow" -> 3

\* A request of one of the given types with sub-mappings absent does not
\* raise; it gets a success record, made from a feature vector of the
\* type's length in which absent viscosity and density are 0.01 and 850.
AbsentMappingsDefaulted(types) ==
    (LastIsRequest /\ SentType(LastLine) \in types
        /\ LastLine.obj \in DefaultRequests \cup PartialRequests) =>
        /\ pc \in {"except", "raised"} => faults > 0
        /\ pc = "read" =>
               /\ LastSuccesses # {}
               /\ \A rec \in LastSuccesses :
                      LET t == SentType(LastLine)
                          mu == ParamOf(LastLine, "materialProperties", "viscosity", F(1, -2))
                          rho == ParamOf(LastLine, "materialProperties", "density", Num(850))
                      IN /\ t \in TrajectoryTypes =>
                                Len(FeatureVector(rec)) = InputDim(t)
                         /\ t = "thermal_coil" =>
                                FeatureVector(rec)[6] = mu /\ FeatureVector(rec)[7] = rho
                         /\ t = "fluid_dynamics" =>
                                FeatureVector(rec)[4] = mu /\ FeatureVector(rec)[5] = rho

\* C19: a request of a supported type whose parameters mapping or one of
\* its geometry, materialProperties, boundaryConditions sub-mappings is
\* absent is not an error: absent fields take their defaults, the feature
\* vector keeps the length of its type, and a success record is written.
C19_AbsentMappingsDefaulted == AbsentMappingsDefaulted(DataModelTypes)

\* row is a non-empty run of consecutive elements of one output vector of
\* the backend.
IsBackendSlice(row) ==
    /\ Len(row) > 0
    /\ \A j \in 1..Len(row) :
           /\ "model" \in DOMAIN row[j]
           /\ j > 1 => /\ row[j].k = row[j - 1].k + 1
                       /\ row[j].inputs = row[j - 1].inputs

\* C20: in a thermal-coil, fluid-dynamics or multi-phase success record
\* each of temperatureField, pressureField, flowVelocity and heatFlux is a
\* slice of the backend's output vector for the request; none is made of
\* request parameters or constants.
C20_FieldsAreBackendSlices ==
    (LastIsRequest /\ pc = "read" /\ SentType(LastLine) \in TrajectoryTypes) =>
        \A rec \in LastSuccesses :
            /\ IsBackendSlice(rec["temperatureField"][1])
            /\ IsBackendSlice(rec["pressureField"][1])
            /\ IsBackendSlice(rec["flowVelocity"][1])
            /\ IsBackendSlice(rec["heatFlux"])

----------------------------------------------------------------------------
(* The projection law of a trajectory. *)

\* |a|
Magnitude(a) == IF a.m < 0 THEN Neg(a) ELSE a

\* a <= b
AtMost(a, b) == ~Less(b, a)

\* One unit in the last digit of the larger of a and b: what one truncation
\* of the arithmetic can take away from a result of their size.
Ulp(a, b) ==
    IF IsZero(a) /\ IsZero(b) THEN Num(0)
    ELSE IF IsZero(a) THEN F(1, b.e)
    ELSE IF IsZero(b) THEN F(1, a.e)
    ELSE F(1, IF a.e > b.e THEN a.e ELSE b.e)

\* The heat transfer rate computed for a thermal-coil request.
InstantHeatTransferRate(l) ==
    compute_heat_transfer(
        simulator.heat_transfer_model,
        Get(SentParameters(l), "temperature", DefaultTemperature),
        ParamOf(l, "boundaryConditions", "coilInletTemp", DefaultCoilInletTemp),
        Get(SentParameters(l), "flowRate", DefaultFlowRate),
        Get(SentParameters(l), "geometry", EmptyDict),
        Get(SentParameters(l), "materialProperties", EmptyDict)).value.heatTransferRate

\* The velocity computed for a fluid-dynamics request.
InstantVelocity(l) ==
    The({ Div(Get(SentParameters(l), "flowRate", DefaultFlowRate), Mul(Pi, Mul(r, r))) :
            r \in {ParamOf(l, "geometry", "pipeRadius", DefaultPipeRadius)} })

\* The state a trajectory starts from: what the request gives and what the
\* routine computed for it before projecting.
InstantaneousState(l, rec) ==
    CASE SentType(l) = "thermal_coil" ->
             << Get(SentParameters(l), "temperature", DefaultTemperature),
                InstantHeatTransferRate(l) >>
      [] SentType(l) = "fluid_dynamics" ->
             << InstantVelocity(l), Get(SentParameters(l), "pressure", DefaultPressure) >>
      [] SentType(l) = "multi_phase" ->
             << Get(SentParameters(l), "temperature", DefaultAsphaltTemperature),
                rec["additionalMetrics"].effectiveViscosity >>

\* timeFactor of sample i of n is 0 for i = 0, grows with i, and is below 1.
TimeFactorsOf(n) ==
    \A i \in 0..(n - 1) :
        /\ i = 0 => IsZero(TimeFactor(i, n))
        /\ i > 0 => Less(TimeFactor(i - 1, n), TimeFactor(i, n))
        /\ NonNegative(TimeFactor(i, n))
        /\ Less(TimeFactor(i, n), Num(1))

\* Sample s of a trajectory of type t that started in state s0 is inside
\* the envelope of the type, to the last digit of the arithmetic.
InEnvelope(t, s0, s, rec) ==
    CASE t = "thermal_coil" ->
             /\ AtMost(Magnitude(s[2]), Magnitude(s0[2]))
             /\ AtMost(Mul(F(9, -1), Magnitude(s0[2])),
                       Add(Magnitude(s[2]), Ulp(s[2], s0[2])))
      [] t = "fluid_dynamics" ->
             /\ AtMost(Magnitude(Sub(s[1], s0[1])),
                       Add(Mul(F(1, -1), Magnitude(s0[1])), Ulp(s[1], s0[1])))
             /\ AtMost(Magnitude(Sub(s0[2], s[2])),
                       Add(Magnitude(rec["additionalMetrics"].pressureDrop),
                           Ulp(s[2], s0[2])))
      [] t = "multi_phase" ->
             /\ AtMost(s[1], s0[1])
             /\ AtMost(Sub(s0[1], s[1]), Add(Num(2), Ulp(s[1], s0[1])))
             /\ AtMost(Magnitude(s0[2]), Magnitude(s[2]))
             /\ AtMost(Magnitude(s[2]), Mul(F(15, -1), Magnitude(s0[2])))

C21_WitnessThermal ==
    /\ LastIsRequest /\ pc = "read"
    /\ SentType(LastLine) = "thermal_coil"
    /\ \E rec \in LastSuccesses :
           LET ps == rec["predictedStates"] IN
           /\ Len(ps) = 60
           /\ ps[1][2] = InstantHeatTransferRate(LastLine)
           /\ Less(ps[60][2], ps[1][2])
           /\ Less(Mul(F(9, -1), ps[1][2]), ps[60][2])

\* A multi-phase request was answered with a trajectory whose temperature
\* falls and whose viscosity grows.
C21_WitnessAsphalt ==
    /\ LastIsRequest /\ pc = "read"
    /\ SentType(LastLine) = "multi_phase"
    /\ \E rec \in LastSuccesses :
           LET ps == rec["predictedStates"] IN
           /\ Len(ps) = 30
           /\ Less(ps[30][1], ps[1][1])
           /\ Less(ps[1][2], ps[30][2])

----------------------------------------------------------------------------
(* Lines that are JSON but no object, and the request variable. *)

\* Line i decoded to a JSON value that is not an object.
IsNonObject(l) == l.kind = "scalar"

\* C22: a line that is valid JSON but not an object gets exactly one error
\* record and the loop goes on to the next line; the handler that reports
\* it does not fail.
C22_NonObjectJsonReported ==
    \A i \in 1..Len(stdin) :
        (IsNonObject(stdin[i]) /\ faults = 0) =>
            /\ ~InIteration(i) =>
                   /\ Cardinality(RecordsFor(i)) = 1
                   /\ \A a \in RecordsFor(i) : IsError(Written[a])
            /\ handling = i => (pc # "raised" /\ exitStatus # 1)

\* The request variable holds the object of an earlier line that carried a
\* requestId.
HoldsEarlierRequest ==
    /\ request.bound /\ request.isDict
    /\ "requestId" \in DOMAIN request.d
    /\ \E i \in 1..Len(stdin) : IsObject(stdin[i]) /\ stdin[i].obj = request.d

\* C23: an error record carries the requestId of the line that caused it,
\* or "unknown" when that line did not decode to an object or when no line
\* was read; a failure before the iteration's request is decoded never puts
\* the requestId still held by the request variable into a record.
C23_NoStaleRequestId ==
    \A j \in 1..Len(Written) :
        IsError(Written[j]) =>
            IF cause[j] > 0 /\ IsObject(stdin[cause[j]])
            THEN Written[j]["requestId"] = SentRequestId(stdin[cause[j]])
            ELSE Written[j]["requestId"] = "unknown"

\* A line that does not decode was read while the request variable held
\* the object of the line before it, and its error record says "unknown".
C23_Witness ==
    /\ Len(stdin) = 2
    /\ IsObject(stdin[1]) /\ Undecodable(stdin[2])
    /\ HoldsEarlierRequest /\ request.d = stdin[1].obj
    /\ pc = "read" /\ handling = 2
    /\ \E j \in RecordsFor(2) :
           /\ IsError(Written[j])
           /\ Written[j]["requestId"] = "unknown"
           /\ Written[j]["requestId"] # request.d["requestId"]

\* A read failed while the request variable held the object of the line
\* before; the handler ran and no record was written for the failure.
C23_WitnessReadFailure ==
    /\ HoldsEarlierRequest
    /\ handling = 0 /\ faults = 1
    /\ pc = "raised" /\ exc = "NameError"
    /\ Len(Written) = Len(stdin) + 1


====
